---- MODULE Spec2Model ----
(***************************************************************************)
(* Model of nr.util.task: Task, TaskPriorityQueue, Worker and              *)
(* DefaultExecutor (nr/util/task/_default.py), TaskStatus (_api.py) and    *)
(* AtomicCounter (nr/util/atomic/_counter.py).                             *)
(*                                                                         *)
(* Every execute() call is its own caller thread, so calls may overlap.    *)
(* The tasks given to execute() have pairwise distinct times of a discrete *)
(* clock; the stop sentinel is enqueued at time 0, before every task.      *)
(* Equal times are put in QueueSpec, which follows the queue on its own    *)
(* until a call raises.  queue.PriorityQueue is modelled by its contract   *)
(* (entries leave in ascending order, tuples are compared item by item);   *)
(* its unfinished-task count cannot be seen through this code as long as   *)
(* no put has raised (nobody joins the inner queue) and is left out.       *)
(***************************************************************************)
EXTENDS Integers, Sequences, FiniteSets, TLC

\* ---------------------------------------------------------------- bounds
NTasks == 2
MaxTime == 2
MaxUpdates == 3
MaxCounterOps == 6
MaxCallbacks == 2

\* ------------------------------------------------------ program constants
\* DefaultExecutor.max_workers: int = 8
DefaultMaxWorkers == 8

Tasks == 1..NTasks
\* A worker is named after the execute() call that spawned it.
Workers == 1..NTasks
Times == 1..MaxTime
NoTask == 0
StopTime == 0

Null == "null"
Val == "val"
Exc == "exc"

\* ------------------------------------------------------------ TaskStatus
PENDING == "PENDING"
QUEUED == "QUEUED"
RUNNING == "RUNNING"
SUCCEEDED == "SUCCEEDED"
FAILED == "FAILED"
CANCELLED == "CANCELLED"
IGNORED == "IGNORED"
NONE == "NONE"

TaskStatus == {PENDING, QUEUED, RUNNING, SUCCEEDED, FAILED, CANCELLED, IGNORED}

idle(s) == s \in {PENDING, QUEUED}

completed(s) == s \in {SUCCEEDED, FAILED, CANCELLED, IGNORED}

VARIABLES
  \* Task
  status,        \* Task._status, NONE before Task.__init__
  result,        \* Task._result
  error,         \* Task._error
  cancelFlag,    \* Task._cancelled (threading.Event)
  hist,          \* the statuses the task has had, in order
  cbPasses,      \* number of callbacks._invoke() passes of the task
  lastUpdate,    \* TaskSpec: the last direct _update call and whether it raised
  nUpdates,      \* TaskSpec: number of direct _update calls
  flagAtRunning, \* while the runnable runs: the flag was set when it started
  invocations,   \* number of runnable.run(task) calls
  outcome,       \* how the runnable ended
  at,            \* the time the task was put at
  \* TaskPriorityQueue
  q,             \* _q, ascending
  total,         \* _total
  current,       \* _current
  qlock,         \* holder of _cond's lock, 0 when free
  waiters,       \* workers inside _cond.wait, in arrival order
  notified,      \* waiters a notify has woken
  \* Worker
  wpc, wtask, wexc, current_task,
  \* DefaultExecutor
  pool,          \* _pool_workers
  all_tasks,     \* _all_tasks
  shutdownFlag,  \* _shutdown
  max_workers,   \* max_workers, given to the constructor
  \* callers
  xpc,           \* position of each execute() call
  spc,           \* position of the shutdown() caller
  sidx,          \* shutdown(): index of the loop over _pool_workers
  sCancel,       \* shutdown(): cancel_running_tasks
  sTask,         \* shutdown(): task, the current task read from the worker
  runningAtShutdown,  \* the tasks that were RUNNING when shutdown() was called
  sBlock,        \* shutdown(): block, of the call that has returned
  queuedAtStop,  \* the tasks in the queue when shutdown() last enqueued a sentinel
  jpc,           \* position of the join() caller
  early,         \* the tasks execute() had returned when the clock left 0
  now,           \* time.time()
  \* an AtomicCounter on its own
  value,         \* AtomicCounter._value
  nInc,          \* number of inc() calls made
  nDec,          \* number of dec() calls that did not raise
  lastCall,      \* the last call on the counter and how it ended
  cjpc,          \* position of a thread that calls join() and waits if it has to
  cjWoken,       \* a notify_all() has woken the thread waiting in join()
  \* TaskCallbacks of a task on its own
  entries,       \* the add() calls made: their condition and once argument
  registered,    \* the keys of TaskCallbacks._callbacks
  fired,         \* number of invocations of the callback of each add() call
  ppc,           \* position of the _invoke() pass of the last _update
  snapshot,      \* _invoke(): the entries of the copy not yet looked at
  toRemove,      \* _invoke(): remove
  lockHolder,    \* the thread that holds Task._lock: the owner in _update, or none
  tjpc,          \* position of the thread that calls Task.join()
  joinWoken      \* a notify_all() has woken the thread waiting in Task.join()

taskVars == <<status, result, error, cancelFlag, hist, cbPasses, lastUpdate,
              nUpdates, flagAtRunning, invocations, outcome, at>>
queueVars == <<q, total, current, qlock, waiters, notified>>
workerVars == <<wpc, wtask, wexc, current_task>>
execVars == <<pool, all_tasks, shutdownFlag>>
callerVars == <<xpc, spc, sidx, sCancel, sTask, runningAtShutdown, sBlock, queuedAtStop, jpc>>
\* What no step of the executor, its workers and its callers changes.
counterVars == <<value, nInc, nDec, lastCall, cjpc, cjWoken>>
callbackVars == <<entries, registered, fired, ppc, snapshot, toRemove,
                  lockHolder, tjpc, joinWoken>>
restVars == <<max_workers, counterVars, callbackVars>>
vars == <<taskVars, queueVars, workerVars, execVars, callerVars, early, now, restVars>>

\* ------------------------------------------------------------------ Task

NoUpdate == [task |-> 0, status |-> NONE, result |-> Null, error |-> Null, raised |-> FALSE]

\* _update without the test that keeps a RUNNING task from going back to
\* PENDING or QUEUED.
UpdateRejectedMutant(cur, st, res, err) ==
  \/ st = FAILED /\ err = Null
  \/ res # Null /\ st # SUCCEEDED
  \/ completed(cur) /\ cur # st

\* _update without the test that keeps a completed task from getting another
\* status.
UpdateRejectedCompletedMutant(cur, st, res, err) ==
  \/ st = FAILED /\ err = Null
  \/ res # Null /\ st # SUCCEEDED
  \/ cur = RUNNING /\ idle(st)

\* Task._update raises RuntimeError before changing anything.
UpdateRejected(cur, st, res, err) ==
  \/ st = FAILED /\ err = Null
  \/ res # Null /\ st # SUCCEEDED
  \/ completed(cur) /\ cur # st
  \/ cur = RUNNING /\ idle(st)

\* Task._update(status, result, error) on task t, whose status is cur and
\* whose statuses so far are h.
UpdateFrom(t, cur, h, st, res, err) ==
  LET rej == UpdateRejected(cur, st, res, err)
      invoke_callbacks == ~rej /\ st # cur
  IN /\ status' = [status EXCEPT ![t] = IF rej THEN cur ELSE st]
     /\ error' = IF rej THEN error ELSE [error EXCEPT ![t] = err]
     /\ result' = IF rej THEN result ELSE [result EXCEPT ![t] = res]
     /\ hist' = [hist EXCEPT ![t] = IF invoke_callbacks THEN Append(h, st) ELSE h]
     /\ cbPasses' = IF invoke_callbacks THEN [cbPasses EXCEPT ![t] = @ + 1] ELSE cbPasses

Update(t, st, res, err) == UpdateFrom(t, status[t], hist[t], st, res, err)

\* Task.cancel(), by whoever holds the task: the caller execute() returned it
\* to, or its runnable.  Nothing reads the flag of a completed task, so the
\* executor is only followed for cancels of tasks that are not completed.
Cancel(t) ==
  /\ xpc[t] = "returned" \/ status[t] = RUNNING
  /\ ~completed(status[t])
  /\ ~cancelFlag[t]
  /\ cancelFlag' = [cancelFlag EXCEPT ![t] = TRUE]
  /\ UNCHANGED <<status, result, error, hist, cbPasses, lastUpdate, nUpdates, flagAtRunning,
                 invocations, outcome, at>>
  /\ UNCHANGED <<queueVars, workerVars, execVars, callerVars, now>>
  /\ UNCHANGED <<early, restVars>>

\* ----------------------------------------------------- TaskPriorityQueue

Entry(time, task) == [at |-> time, task |-> task]

\* queue.PriorityQueue.put: the entry goes behind the entries not after it.
QPut(queue, e) ==
  LET k == Cardinality({i \in 1..Len(queue) : queue[i].at <= e.at})
  IN SubSeq(queue, 1, k) \o <<e>> \o SubSeq(queue, k + 1, Len(queue))

\* queue.PriorityQueue.put raises TypeError: the heap compares the new tuple
\* with its parent, the head of a queue of one or two entries; with equal
\* times the tasks are compared, and a Task has no order.
PutRaises(queue, e) ==
  /\ queue # <<>>
  /\ Head(queue).at = e.at
  /\ Head(queue).task # e.task

\* A queue whose get leaves the entry it returns in place.
QGetMutant(queue) == queue

\* queue.PriorityQueue.get: the head leaves the queue.
QGet(queue) == Tail(queue)

Range(f) == {f[i] : i \in DOMAIN f}

\* The queue holds an entry of task t.
InQueue(t) == \E i \in 1..Len(q) : q[i].task = t

Without(sq, x) == SelectSeq(sq, LAMBDA y : y # x)

\* ------------------------------------------------------- DefaultExecutor

\* execute() that does not look at the shutdown flag.
ExecuteRefusedMutant == FALSE

\* execute(): if self._shutdown: raise RuntimeError.
ExecuteRefused == shutdownFlag

\* execute(): the shutdown check, then Task.__init__ (status PENDING) and
\* task._update(TaskStatus.QUEUED), both on a task no other thread can reach
\* yet.  Calls are numbered in the order they begin.
ExecuteBegin(t, time) ==
  /\ xpc[t] = "idle"
  /\ \A u \in 1..(t - 1) : xpc[u] # "idle"
  /\ time \notin {at[u] : u \in {v \in Tasks : status[v] # NONE}}
  /\ IF ExecuteRefused
        THEN /\ xpc' = [xpc EXCEPT ![t] = "raised"]
             /\ UNCHANGED <<status, result, error, hist, cbPasses, at>>
        ELSE /\ xpc' = [xpc EXCEPT ![t] = "put"]
             /\ UpdateFrom(t, PENDING, <<PENDING>>, QUEUED, Null, Null)
             /\ at' = [at EXCEPT ![t] = time]
  /\ UNCHANGED <<cancelFlag, lastUpdate, nUpdates, flagAtRunning, invocations, outcome>>
  /\ UNCHANGED <<queueVars, workerVars, execVars, spc, sidx, sCancel, sTask,
                 runningAtShutdown, sBlock, queuedAtStop, jpc, now>>
  /\ UNCHANGED <<early, restVars>>

\* TaskPriorityQueue.put(): with self._cond: self._q.put((at, task)).  A
\* TypeError of the inner put leaves put() and its caller; the heap has
\* appended the tuple by then.
PutEnqueue(t) ==
  /\ xpc[t] = "put"
  /\ qlock = 0
  /\ q' = QPut(q, Entry(at[t], t))
  /\ IF PutRaises(q, Entry(at[t], t))
       THEN /\ xpc' = [xpc EXCEPT ![t] = "raised"]
            /\ UNCHANGED qlock
       ELSE /\ xpc' = [xpc EXCEPT ![t] = "put_inc"]
            /\ qlock' = t
  /\ UNCHANGED <<total, current, waiters, notified>>
  /\ UNCHANGED <<taskVars, workerVars, execVars, spc, sidx, sCancel, sTask,
                 runningAtShutdown, sBlock, queuedAtStop, jpc, now>>
  /\ UNCHANGED <<early, restVars>>

\* TaskPriorityQueue.put(): self._total.inc(), self._cond.notify(), and the
\* lock is released.
PutCount(t) ==
  /\ xpc[t] = "put_inc"
  /\ qlock = t
  /\ total' = total + 1
  /\ IF waiters = <<>>
        THEN UNCHANGED <<waiters, notified>>
        ELSE /\ notified' = notified \cup {Head(waiters)}
             /\ waiters' = Tail(waiters)
  /\ qlock' = 0
  /\ xpc' = [xpc EXCEPT ![t] = "size"]
  /\ UNCHANGED <<q, current>>
  /\ UNCHANGED <<taskVars, workerVars, execVars, spc, sidx, sCancel, sTask,
                 runningAtShutdown, sBlock, queuedAtStop, jpc, now>>
  /\ UNCHANGED <<early, restVars>>

\* execute(): size = self._all_tasks.get() and the test that decides whether a
\* worker is spawned.
SpawnWanted == all_tasks >= Len(pool) /\ all_tasks < max_workers

\* execute(): the test is made; _spawn_pool_worker(): Worker(...) and
\* worker.start(), or execute() returns.
ExecuteSize(t) ==
  /\ xpc[t] = "size"
  /\ IF SpawnWanted
       THEN /\ wpc' = [wpc EXCEPT ![t] = "get"]
            /\ xpc' = [xpc EXCEPT ![t] = "append"]
       ELSE /\ xpc' = [xpc EXCEPT ![t] = "returned"]
            /\ UNCHANGED wpc
  /\ UNCHANGED <<wtask, wexc, current_task>>
  /\ UNCHANGED <<taskVars, queueVars, execVars, spc, sidx, sCancel, sTask,
                 runningAtShutdown, sBlock, queuedAtStop, jpc, now>>
  /\ UNCHANGED <<early, restVars>>

\* _spawn_pool_worker(): self._pool_workers.append(worker); execute() returns.
SpawnAppend(t) ==
  /\ xpc[t] = "append"
  /\ pool' = Append(pool, t)
  /\ xpc' = [xpc EXCEPT ![t] = "returned"]
  /\ UNCHANGED <<all_tasks, shutdownFlag>>
  /\ UNCHANGED <<taskVars, queueVars, workerVars, spc, sidx, sCancel, sTask,
                 runningAtShutdown, sBlock, queuedAtStop, jpc, now>>
  /\ UNCHANGED <<early, restVars>>

\* ---------------------------------------------------------------- Worker

othersOfWorker == <<spc, sidx, sCancel, sTask, runningAtShutdown, sBlock, queuedAtStop, jpc, xpc, now>>

\* TaskPriorityQueue.get(): at, task = self._q.get().  A stop sentinel ends
\* Worker._mainloop.
QueueGet(w) ==
  /\ wpc[w] = "get"
  /\ q # <<>>
  /\ q' = QGet(q)
  /\ LET e == Head(q)
     IN IF e.task = NoTask
          THEN /\ wpc' = [wpc EXCEPT ![w] = "stopped"]
               /\ UNCHANGED wtask
          ELSE /\ wtask' = [wtask EXCEPT ![w] = e.task]
               /\ wpc' = [wpc EXCEPT ![w] = "check"]
  /\ UNCHANGED <<total, current, qlock, waiters, notified, wexc, current_task>>
  /\ UNCHANGED <<taskVars, execVars, othersOfWorker>>
  /\ UNCHANGED <<early, restVars>>

\* get() that returns every entry it takes.
ReadyMutant(time, t, cancelled) == TRUE

\* TaskPriorityQueue.get(): if at <= t or task.cancelled().
Ready(time, t, cancelled) == time <= t \/ cancelled

\* TaskPriorityQueue.get(): t = time.time(), read after the entry was taken,
\* and the test.
QueueGetCheck(w) ==
  /\ wpc[w] = "check"
  /\ wpc' = [wpc EXCEPT ![w] =
               IF Ready(at[wtask[w]], now, cancelFlag[wtask[w]]) THEN "inc" ELSE "requeue"]
  /\ UNCHANGED <<q, total, current, qlock, waiters, notified, wtask, wexc, current_task>>
  /\ UNCHANGED <<taskVars, execVars, othersOfWorker>>
  /\ UNCHANGED <<early, restVars>>

\* TaskPriorityQueue.get(): the head is not ready: it is put back and the
\* worker waits on the condition, at most until the head's time.  A TypeError
\* of the inner put leaves get() and the thread that called it.
QueueGetRequeue(w) ==
  /\ wpc[w] = "requeue"
  /\ qlock = 0
  /\ q' = QPut(q, Entry(at[wtask[w]], wtask[w]))
  /\ IF PutRaises(q, Entry(at[wtask[w]], wtask[w]))
       THEN /\ wpc' = [wpc EXCEPT ![w] = "dead"]
            /\ UNCHANGED waiters
       ELSE /\ waiters' = Append(waiters, w)
            /\ wpc' = [wpc EXCEPT ![w] = "wait"]
  /\ UNCHANGED <<total, current, qlock, notified, wtask, wexc, current_task>>
  /\ UNCHANGED <<taskVars, execVars, othersOfWorker>>
  /\ UNCHANGED <<early, restVars>>

\* Condition.wait returns, on a notify or on its timeout, once the lock is
\* free again; get() loops.
QueueGetWake(w) ==
  /\ wpc[w] = "wait"
  /\ w \in notified \/ at[wtask[w]] <= now
  /\ qlock = 0
  /\ waiters' = Without(waiters, w)
  /\ notified' = notified \ {w}
  /\ wtask' = [wtask EXCEPT ![w] = NoTask]
  /\ wpc' = [wpc EXCEPT ![w] = "get"]
  /\ UNCHANGED <<q, total, current, qlock, wexc, current_task>>
  /\ UNCHANGED <<taskVars, execVars, othersOfWorker>>
  /\ UNCHANGED <<early, restVars>>

\* TaskPriorityQueue.get(): self._current.inc(); return task.  Then
\* Worker._mainloop: a cancelled task is ignored, any other becomes the
\* worker's current task.
MainloopCheck(w) ==
  /\ wpc[w] = "inc"
  /\ current' = current + 1
  /\ IF cancelFlag[wtask[w]]
       THEN /\ Update(wtask[w], IGNORED, Null, Null)
            /\ wpc' = [wpc EXCEPT ![w] = "task_done"]
            /\ UNCHANGED current_task
       ELSE /\ current_task' = [current_task EXCEPT ![w] = wtask[w]]
            /\ wpc' = [wpc EXCEPT ![w] = "run"]
            /\ UNCHANGED <<status, result, error, hist, cbPasses>>
  /\ UNCHANGED <<cancelFlag, lastUpdate, nUpdates, flagAtRunning, invocations, outcome, at, wtask, wexc>>
  /\ UNCHANGED <<q, total, qlock, waiters, notified>>
  /\ UNCHANGED <<execVars, othersOfWorker>>
  /\ UNCHANGED <<early, restVars>>

\* Worker._run_task: task._update(TaskStatus.RUNNING), then the runnable is
\* called.
RunTaskStart(w) ==
  /\ wpc[w] = "run"
  /\ Update(wtask[w], RUNNING, Null, Null)
  /\ invocations' = [invocations EXCEPT ![wtask[w]] = @ + 1]
  /\ flagAtRunning' = [flagAtRunning EXCEPT ![wtask[w]] = cancelFlag[wtask[w]]]
  /\ wpc' = [wpc EXCEPT ![w] = "running"]
  /\ UNCHANGED <<cancelFlag, lastUpdate, nUpdates, outcome, at, wtask, wexc, current_task>>
  /\ UNCHANGED <<queueVars, execVars, othersOfWorker>>
  /\ UNCHANGED <<early, restVars>>

\* Worker._run_task, except clause: the arguments of
\* task._update(TaskStatus.FAILED, sys.exc_info()).
FailedArgs == [status |-> FAILED, result |-> Exc, error |-> Null]

\* _run_task reporting a cancelled task as IGNORED.
ReturnedArgsMutant(isCancelled, r) ==
  [status |-> IF isCancelled THEN IGNORED ELSE SUCCEEDED, result |-> r, error |-> Null]

\* Worker._run_task, else clause: the arguments of
\* task._update(CANCELLED if task.cancelled() else SUCCEEDED, result).
ReturnedArgs(isCancelled, r) ==
  [status |-> IF isCancelled THEN CANCELLED ELSE SUCCEEDED, result |-> r, error |-> Null]

Outcomes == {"null", "val", "raise"}

\* Worker._run_task: the runnable returns r or raises, and the final update
\* is made; a RuntimeError of _update leaves _run_task.
RunTaskEnd(w, o) ==
  /\ wpc[w] = "running"
  /\ LET t == wtask[w]
         a == IF o = "raise" THEN FailedArgs
              ELSE ReturnedArgs(cancelFlag[t], IF o = "val" THEN Val ELSE Null)
     IN /\ Update(t, a.status, a.result, a.error)
        /\ wexc' = [wexc EXCEPT ![w] = UpdateRejected(status[t], a.status, a.result, a.error)]
        /\ outcome' = [outcome EXCEPT ![t] = o]
        /\ flagAtRunning' = [flagAtRunning EXCEPT ![t] = FALSE]
  /\ wpc' = [wpc EXCEPT ![w] = "task_done"]
  /\ UNCHANGED <<cancelFlag, lastUpdate, nUpdates, invocations, at, wtask, current_task>>
  /\ UNCHANGED <<queueVars, execVars, othersOfWorker>>
  /\ UNCHANGED <<early, restVars>>

\* A finally clause that leaves the slot as it is.
SlotAfterTaskMutant(slot) == slot

\* Worker._mainloop, finally clause: with self._lock: self._current_task = None.
SlotAfterTask(slot) == NoTask

\* Worker._mainloop, finally clause (and the ignored path, where no current
\* task is set): self._current_task = None, then TaskPriorityQueue.task_done()
\* as far as self._current.dec(); AtomicCounter.dec raises ValueError at zero.
TaskDoneCurrent(w) ==
  /\ wpc[w] = "task_done"
  /\ current_task' = [current_task EXCEPT ![w] = SlotAfterTask(@)]
  /\ IF current = 0
       THEN /\ wpc' = [wpc EXCEPT ![w] = "dead"]
            /\ UNCHANGED current
       ELSE /\ current' = current - 1
            /\ wpc' = [wpc EXCEPT ![w] = "total_dec"]
  /\ UNCHANGED <<q, total, qlock, waiters, notified, wtask, wexc>>
  /\ UNCHANGED <<taskVars, execVars, othersOfWorker>>
  /\ UNCHANGED <<early, restVars>>

\* TaskPriorityQueue.task_done(): self._total.dec(); then the loop goes on,
\* unless an exception is on its way out of _mainloop (Worker._run logs it
\* and the thread ends).
TaskDoneTotal(w) ==
  /\ wpc[w] = "total_dec"
  /\ IF total = 0
       THEN /\ wpc' = [wpc EXCEPT ![w] = "dead"]
            /\ UNCHANGED total
       ELSE /\ total' = total - 1
            /\ wpc' = [wpc EXCEPT ![w] = IF wexc[w] THEN "dead" ELSE "get"]
  /\ wtask' = [wtask EXCEPT ![w] = NoTask]
  /\ wexc' = [wexc EXCEPT ![w] = FALSE]
  /\ UNCHANGED <<q, current, qlock, waiters, notified, current_task>>
  /\ UNCHANGED <<taskVars, execVars, othersOfWorker>>
  /\ UNCHANGED <<early, restVars>>

\* -------------------------------------------- DefaultExecutor.shutdown/join

othersOfShutdown == <<xpc, jpc, now>>

\* shutdown() that does not look at the shutdown flag.
ShutdownRefusedMutant == FALSE

\* shutdown(): if self._shutdown: raise RuntimeError.
ShutdownRefused == shutdownFlag

\* shutdown(): the flag is tested and set.  The caller may call again once
\* its first call has returned.
ShutdownBegin(cancel_running_tasks) ==
  /\ spc \in {"idle", "returned"}
  /\ IF ShutdownRefused
       THEN /\ spc' = "raised"
            /\ UNCHANGED <<shutdownFlag, sidx, sCancel, sTask, runningAtShutdown>>
       ELSE /\ shutdownFlag' = TRUE
            /\ spc' = IF cancel_running_tasks THEN "cancel" ELSE "put_stop"
            /\ sidx' = 1
            /\ sCancel' = cancel_running_tasks
            /\ UNCHANGED sTask
            /\ runningAtShutdown' = {t \in Tasks : status[t] = RUNNING}
  /\ UNCHANGED <<pool, all_tasks, sBlock, queuedAtStop>>
  /\ UNCHANGED <<taskVars, queueVars, workerVars, othersOfShutdown>>
  /\ UNCHANGED <<early, restVars>>

\* shutdown() that looks at the worker's task and does not cancel it.
CancelCurrentMutant(task) == cancelFlag

\* shutdown(): task = worker.get_current_task(); if task is not None:
\* task.cancel().
CancelCurrent(task) ==
  IF task # NoTask THEN [cancelFlag EXCEPT ![task] = TRUE] ELSE cancelFlag

\* shutdown(): for worker in self._pool_workers: the worker's current task
\* is cancelled.
ShutdownCancel ==
  /\ spc = "cancel"
  /\ sidx <= Len(pool)
  /\ sTask' = current_task[pool[sidx]]
  /\ cancelFlag' = CancelCurrent(current_task[pool[sidx]])
  /\ spc' = "put_stop"
  /\ UNCHANGED <<status, result, error, hist, cbPasses, lastUpdate, nUpdates, flagAtRunning,
                 invocations, outcome, at>>
  /\ UNCHANGED <<sidx, sCancel, runningAtShutdown, sBlock, queuedAtStop>>
  /\ UNCHANGED <<queueVars, workerVars, execVars, othersOfShutdown>>
  /\ UNCHANGED <<early, restVars>>

\* TaskPriorityQueue.put_stop(0): the sentinel is enqueued and every waiter
\* is notified.
ShutdownPutStop ==
  /\ spc = "put_stop"
  /\ sidx <= Len(pool)
  /\ qlock = 0
  /\ q' = QPut(q, Entry(StopTime, NoTask))
  /\ notified' = notified \cup Range(waiters)
  /\ waiters' = <<>>
  /\ sidx' = sidx + 1
  /\ spc' = IF sCancel THEN "cancel" ELSE "put_stop"
  /\ sTask' = NoTask
  /\ queuedAtStop' = {t \in Tasks : InQueue(t)}
  /\ UNCHANGED <<total, current, qlock>>
  /\ UNCHANGED <<sCancel, runningAtShutdown, sBlock>>
  /\ UNCHANGED <<taskVars, workerVars, execVars, othersOfShutdown>>
  /\ UNCHANGED <<early, restVars>>

\* shutdown(): the loop is over; if block: self._queue.join_current(), that
\* is AtomicCounter.join() on _current.  The block argument is drawn here,
\* where it is first read; the locals of the call end with it.
ShutdownJoin(block) ==
  /\ spc \in {"cancel", "put_stop"}
  /\ sidx > Len(pool)
  /\ block => current = 0
  /\ spc' = "returned"
  /\ sidx' = 0
  /\ sCancel' = FALSE
  /\ runningAtShutdown' = {}
  /\ sBlock' = block
  /\ UNCHANGED <<sTask, queuedAtStop>>
  /\ UNCHANGED <<taskVars, queueVars, workerVars, execVars, othersOfShutdown>>
  /\ UNCHANGED <<early, restVars>>

\* join(): self._queue.join_total(), that is AtomicCounter.join():
\* wait_for(lambda: self._value == 0) returns.
JoinReturn ==
  /\ jpc = "joining"
  /\ total = 0
  /\ jpc' = "returned"
  /\ UNCHANGED <<xpc, spc, sidx, sCancel, sTask, runningAtShutdown, sBlock, queuedAtStop, now>>
  /\ UNCHANGED <<taskVars, queueVars, workerVars, execVars>>
  /\ UNCHANGED <<early, restVars>>

\* time.time() advances.
Tick ==
  /\ now < MaxTime
  /\ now' = now + 1
  /\ early' = IF now = 0 THEN {t \in Tasks : xpc[t] = "returned"} ELSE early
  /\ UNCHANGED <<taskVars, queueVars, workerVars, execVars, callerVars, restVars>>

\* --------------------------------------------------------- TaskCallbacks

\* The task whose callbacks are followed.
CbTask == 1

\* An add() call is named by the key its entry gets, or would get.
Keys == 1..MaxCallbacks

\* The group of an entry added without one.
NoGroup == "None"

\* An add() call not made yet.  cond is the set of statuses in which the
\* condition holds, condRaises the set in which it raises; cbRaises tells
\* whether the callback raises.
NoEntry == [used |-> FALSE, cond |-> {}, once |-> FALSE, group |-> NoGroup,
            condRaises |-> {}, cbRaises |-> FALSE]

\* Task.__init__: self._lock = threading.RLock(), self._cond =
\* threading.Condition(self._lock); TaskCallbacks.__init__: self._lock =
\* task._lock, self._callbacks = {}.  Nobody has called Task.join.
CallbacksInit ==
  /\ entries = [k \in Keys |-> NoEntry]
  /\ registered = {}
  /\ fired = [k \in Keys |-> 0]
  /\ ppc = "idle"
  /\ snapshot = {}
  /\ toRemove = {}
  /\ lockHolder = "none"
  /\ tjpc = "idle"
  /\ joinWoken = FALSE

\* What the calls on the callbacks of a task leave alone.
othersOfCallbacks == <<queueVars, workerVars, execVars, callerVars, early, now,
                       max_workers, counterVars>>

\* on() whose 'end' matches CANCELLED as well.
OnStatusesMutant(state) ==
  IF state = "start" THEN {RUNNING, SUCCEEDED, FAILED, IGNORED}
  ELSE IF state = "end" THEN {SUCCEEDED, FAILED, IGNORED, CANCELLED}
  ELSE {state}

\* TaskCallbacks.on(state, ...): the statuses of the condition
\* t.status in statuses.
OnStatuses(state) ==
  IF state = "start" THEN {RUNNING, SUCCEEDED, FAILED, IGNORED}
  ELSE IF state = "end" THEN {SUCCEEDED, FAILED, IGNORED}
  ELSE {state}

\* add() that stores every entry.
StoredByAddMutant(run_now) == TRUE

\* TaskCallbacks.add(): if not run_now: self._callbacks[...] = _Entry(...).
StoredByAdd(run_now) == ~run_now

\* TaskCallbacks.add(condition, callback, once, group): under the lock the
\* condition is evaluated and, if false, the entry is stored; if true the
\* callback is invoked right away, outside the lock, and nothing is stored.
\* A condition that raises leaves add() before anything is stored; a callback
\* that raises leaves add() after it was invoked.  condition is the pair of the
\* statuses in which it holds and in which it raises, callback tells whether
\* it raises.  Keys follow the order of the calls, as the entries of the dict
\* do.
CallbacksAdd(k, condition, callback, once, group) ==
  /\ lockHolder = "none"
  /\ ~entries[k].used
  /\ \A j \in 1..(k - 1) : entries[j].used
  /\ entries' = [entries EXCEPT ![k] =
                   [used |-> TRUE, cond |-> condition.holds, once |-> once, group |-> group,
                    condRaises |-> condition.raises, cbRaises |-> callback.raises]]
  /\ IF status[CbTask] \in condition.raises
       THEN UNCHANGED <<registered, fired>>
       ELSE LET run_now == status[CbTask] \in condition.holds
            IN /\ registered' = IF StoredByAdd(run_now)
                                  THEN registered \cup {k} ELSE registered
               /\ fired' = IF run_now THEN [fired EXCEPT ![k] = @ + 1] ELSE fired
  /\ UNCHANGED <<ppc, snapshot, toRemove, lockHolder, tjpc, joinWoken>>
  /\ UNCHANGED <<taskVars, othersOfCallbacks>>

\* TaskCallbacks.on(state, callback, once, group): add() with the condition
\* t.status in statuses, which does not raise.
CallbacksOn(k, state, once, group) ==
  CallbacksAdd(k, [holds |-> OnStatuses(state), raises |-> {}], [raises |-> FALSE],
               once, group)

\* TaskCallbacks.remove(group=group).
CallbacksRemove(group) ==
  /\ lockHolder = "none"
  /\ registered' = {k \in registered : entries[k].group # group}
  /\ registered' # registered
  /\ UNCHANGED <<entries, fired, ppc, snapshot, toRemove, lockHolder, tjpc, joinWoken>>
  /\ UNCHANGED <<taskVars, othersOfCallbacks>>

\* Task._update: the arguments passed the two tests made before the lock, and
\* with self._cond: is entered.  The thread that owns the task makes its next
\* call when the callback pass of the last has ended.
UpdateEnter ==
  /\ ppc = "idle"
  /\ lockHolder = "none"
  /\ nUpdates < MaxUpdates
  /\ lockHolder' = "owner"
  /\ UNCHANGED <<entries, registered, fired, ppc, snapshot, toRemove, tjpc, joinWoken>>
  /\ UNCHANGED <<taskVars, othersOfCallbacks>>

\* _update that keeps the lock of the task while the callbacks run.
LockAfterUpdateMutant == "owner"

\* Task._update: the with self._cond: block is left before
\* self.callbacks._invoke() is called.
LockAfterUpdate == "none"

\* task._update(st, None, err) by the thread that owns the task.  A call that
\* fails a test made before the lock raises without the lock; any other holds
\* the lock, where it raises or commits the status and calls notify_all(),
\* and leaves the block.
CallbackUpdate(st, err) ==
  /\ ppc = "idle"
  /\ nUpdates < MaxUpdates
  /\ nUpdates' = nUpdates + 1
  /\ IF st = FAILED /\ err = Null
       THEN /\ lockHolder = "none"
            /\ UNCHANGED <<lockHolder, joinWoken>>
       ELSE /\ lockHolder = "owner"
            /\ lockHolder' = LockAfterUpdate
            /\ joinWoken' = IF UpdateRejected(status[CbTask], st, Null, err)
                              THEN joinWoken ELSE (tjpc = "waiting")
  /\ Update(CbTask, st, Null, err)
  /\ ppc' = IF ~UpdateRejected(status[CbTask], st, Null, err) /\ st # status[CbTask]
              THEN "copy" ELSE "idle"
  /\ UNCHANGED <<entries, registered, fired, snapshot, toRemove, tjpc>>
  /\ UNCHANGED <<cancelFlag, lastUpdate, flagAtRunning, invocations, outcome, at>>
  /\ UNCHANGED othersOfCallbacks

\* TaskCallbacks._invoke(): with self._lock: callbacks = self._callbacks.copy().
\* The lock is reentrant: the thread takes it whether or not it holds it, and
\* holds it afterwards as it did before.
InvokeCopy ==
  /\ ppc = "copy"
  /\ snapshot' = registered
  /\ toRemove' = {}
  /\ ppc' = "loop"
  /\ UNCHANGED <<entries, registered, fired, lockHolder, tjpc, joinWoken>>
  /\ UNCHANGED <<taskVars, othersOfCallbacks>>

\* The first key of a non-empty set of keys, in the order of the dict.
FirstKey(ks) == CHOOSE k \in ks : \A j \in ks : k <= j

\* _invoke() without its try blocks.
ExceptionLeavesInvokeMutant(raised) == raised

\* TaskCallbacks._invoke(): the condition and the callback are each called
\* inside try/except, which logs the exception and goes on.
ExceptionLeavesInvoke(raised) == FALSE

\* TaskCallbacks._invoke(): one turn of the loop over the copy: the condition
\* is evaluated on the task as it is now, and the loop goes on if it raises
\* or is false; a matching once entry is noted for removal; the callback is
\* invoked.  An exception that left _invoke would leave _update as well.
InvokeEntry ==
  /\ ppc = "loop"
  /\ snapshot # {}
  /\ LET k == FirstKey(snapshot)
         condRaised == status[CbTask] \in entries[k].condRaises
         do_run == ~condRaised /\ status[CbTask] \in entries[k].cond
         raised == condRaised \/ (do_run /\ entries[k].cbRaises)
     IN /\ toRemove' = IF do_run /\ entries[k].once THEN toRemove \cup {k} ELSE toRemove
        /\ fired' = IF do_run THEN [fired EXCEPT ![k] = @ + 1] ELSE fired
        /\ IF ExceptionLeavesInvoke(raised)
             THEN /\ snapshot' = {}
                  /\ ppc' = "raised"
             ELSE /\ snapshot' = snapshot \ {k}
                  /\ UNCHANGED ppc
  /\ UNCHANGED <<entries, registered, lockHolder, tjpc, joinWoken>>
  /\ UNCHANGED <<taskVars, othersOfCallbacks>>

\* _invoke() that removes nothing after the pass.
KeptAfterPassMutant(reg, rm) == reg

\* TaskCallbacks._invoke(): self._callbacks = {k: e for k, e in
\* self._callbacks.items() if k not in remove}.
KeptAfterPass(reg, rm) == reg \ rm

\* TaskCallbacks._invoke(): the loop is over, the once entries that ran are
\* removed under the lock; _invoke and _update return.
InvokeRemove ==
  /\ ppc = "loop"
  /\ snapshot = {}
  /\ registered' = KeptAfterPass(registered, toRemove)
  /\ toRemove' = {}
  /\ ppc' = "idle"
  /\ UNCHANGED <<entries, fired, snapshot, lockHolder, tjpc, joinWoken>>
  /\ UNCHANGED <<taskVars, othersOfCallbacks>>

\* join() that waits until the task has left the idle statuses.
JoinPredicateMutant(s) == ~idle(s)

\* Task.join(): the predicate lambda: self._status.completed.
JoinPredicate(s) == completed(s)

\* Task.join(): with self._cond: wait_for evaluates the predicate; the call
\* returns True if it holds, else the thread waits on the condition, which
\* releases the lock.
TaskJoin ==
  /\ tjpc = "idle"
  /\ lockHolder = "none"
  /\ tjpc' = IF JoinPredicate(status[CbTask]) THEN "returned" ELSE "waiting"
  /\ UNCHANGED <<entries, registered, fired, ppc, snapshot, toRemove, lockHolder, joinWoken>>
  /\ UNCHANGED <<taskVars, othersOfCallbacks>>

\* Task.join(): a notify_all() has woken the thread, which takes the lock
\* again and evaluates the predicate again.
TaskJoinWake ==
  /\ tjpc = "waiting"
  /\ joinWoken
  /\ lockHolder = "none"
  /\ joinWoken' = FALSE
  /\ tjpc' = IF JoinPredicate(status[CbTask]) THEN "returned" ELSE "waiting"
  /\ UNCHANGED <<entries, registered, fired, ppc, snapshot, toRemove, lockHolder>>
  /\ UNCHANGED <<taskVars, othersOfCallbacks>>

\* --------------------------------------------------------- AtomicCounter

NoValue == "None"

\* A Python bool as a value a call returns.
PyBool(b) == IF b THEN "True" ELSE "False"

NoCall == [op |-> "none", raised |-> FALSE, returned |-> NoValue, reached |-> FALSE]

\* AtomicCounter.__init__: self._value = 0.
CounterInit ==
  /\ value = 0
  /\ nInc = 0
  /\ nDec = 0
  /\ lastCall = NoCall
  /\ cjpc = "idle"
  /\ cjWoken = FALSE

\* What the calls on the counter leave alone.
othersOfCounter == <<taskVars, queueVars, workerVars, execVars, callerVars, early, now,
                     max_workers, callbackVars>>

\* AtomicCounter.inc(): with self._cond: self._value += 1.
CounterInc ==
  /\ nInc < MaxCounterOps
  /\ value' = value + 1
  /\ nInc' = nInc + 1
  /\ lastCall' = [NoCall EXCEPT !.op = "inc"]
  /\ UNCHANGED <<nDec, cjpc, cjWoken, othersOfCounter>>

\* dec() that does not test the value.
DecRaisesMutant(v) == FALSE

\* AtomicCounter.dec(): if self._value == 0: raise ValueError.
DecRaises(v) == v = 0

\* dec() that notifies nobody.
WokenAfterDecMutant(waiting) == FALSE

\* AtomicCounter.dec(): self._cond.notify_all() wakes the thread that waits.
WokenAfterDec(waiting) == waiting

\* AtomicCounter.dec(): with self._cond: the test, then self._value -= 1 and
\* self._cond.notify_all().
CounterDec ==
  /\ IF DecRaises(value)
       THEN /\ lastCall' = [NoCall EXCEPT !.op = "dec", !.raised = TRUE]
            /\ UNCHANGED <<value, nDec, cjWoken>>
       ELSE /\ value' = value - 1
            /\ nDec' = nDec + 1
            /\ lastCall' = [NoCall EXCEPT !.op = "dec"]
            /\ cjWoken' = WokenAfterDec(cjpc = "waiting")
  /\ UNCHANGED <<nInc, cjpc, othersOfCounter>>

\* AtomicCounter.get(): with self._cond: return self._value.
CounterGet ==
  /\ lastCall' = [NoCall EXCEPT !.op = "get", !.returned = value]
  /\ UNCHANGED <<value, nInc, nDec, cjpc, cjWoken, othersOfCounter>>

\* join() that returns what wait_for returned.
JoinReturnValueMutant(reached) == PyBool(reached)

\* AtomicCounter.join(): the value of wait_for is dropped, join returns None.
JoinReturnValue(reached) == NoValue

\* AtomicCounter.join(timeout): self._cond.wait_for(lambda: self._value == 0,
\* timeout) returns: without a timeout when the value is 0, with a timeout
\* then or when the timeout has elapsed.  reached is what wait_for returned.
CounterJoin(timed) ==
  /\ timed \/ value = 0
  /\ lastCall' = [op |-> IF timed THEN "join_timeout" ELSE "join", raised |-> FALSE,
                  returned |-> JoinReturnValue(value = 0), reached |-> (value = 0)]
  /\ UNCHANGED <<value, nInc, nDec, cjpc, cjWoken, othersOfCounter>>

\* AtomicCounter.join(), followed from its call: with self._cond: wait_for
\* evaluates self._value == 0; the call returns if it holds, else the thread
\* waits on the condition.
CounterJoinEnter ==
  /\ cjpc = "idle"
  /\ cjpc' = IF value = 0 THEN "returned" ELSE "waiting"
  /\ UNCHANGED <<value, nInc, nDec, lastCall, cjWoken, othersOfCounter>>

\* AtomicCounter.join(): a notify_all() has woken the thread, which takes the
\* lock again and evaluates self._value == 0 again.
CounterJoinWake ==
  /\ cjpc = "waiting"
  /\ cjWoken
  /\ cjWoken' = FALSE
  /\ cjpc' = IF value = 0 THEN "returned" ELSE "waiting"
  /\ UNCHANGED <<value, nInc, nDec, lastCall, othersOfCounter>>

\* ------------------------------------------------------- specifications

\* DefaultExecutor(name, max_workers) has been constructed at time clock.
InitAt(mw, clock) ==
  /\ status = [t \in Tasks |-> NONE]
  /\ result = [t \in Tasks |-> Null]
  /\ error = [t \in Tasks |-> Null]
  /\ cancelFlag = [t \in Tasks |-> FALSE]
  /\ hist = [t \in Tasks |-> <<>>]
  /\ cbPasses = [t \in Tasks |-> 0]
  /\ lastUpdate = NoUpdate
  /\ nUpdates = 0
  /\ flagAtRunning = [t \in Tasks |-> FALSE]
  /\ invocations = [t \in Tasks |-> 0]
  /\ outcome = [t \in Tasks |-> "none"]
  /\ at = [t \in Tasks |-> 0]
  /\ q = <<>>
  /\ total = 0
  /\ current = 0
  /\ qlock = 0
  /\ waiters = <<>>
  /\ notified = {}
  /\ wpc = [w \in Workers |-> "unborn"]
  /\ wtask = [w \in Workers |-> NoTask]
  /\ wexc = [w \in Workers |-> FALSE]
  /\ current_task = [w \in Workers |-> NoTask]
  /\ pool = <<>>
  /\ all_tasks = 0
  /\ shutdownFlag = FALSE
  /\ xpc = [t \in Tasks |-> "idle"]
  /\ spc = "idle"
  /\ sidx = 0
  /\ sCancel = FALSE
  /\ sTask = NoTask
  /\ runningAtShutdown = {}
  /\ sBlock = FALSE
  /\ queuedAtStop = {}
  /\ jpc = "joining"
  /\ max_workers = mw
  /\ early = {}
  /\ now = clock
  /\ CounterInit
  /\ CallbacksInit

Init == InitAt(DefaultMaxWorkers, 1)

\* The steps of an execute() call that has begun.
ExecuteRest(t) ==
  \/ PutEnqueue(t)
  \/ PutCount(t)
  \/ ExecuteSize(t)
  \/ SpawnAppend(t)

ExecuteStep ==
  \E t \in Tasks :
    \/ \E time \in Times : ExecuteBegin(t, time)
    \/ ExecuteRest(t)

\* The steps of worker thread w.
WorkerOf(w) ==
  \/ QueueGet(w)
  \/ QueueGetCheck(w)
  \/ QueueGetRequeue(w)
  \/ QueueGetWake(w)
  \/ MainloopCheck(w)
  \/ RunTaskStart(w)
  \/ \E o \in Outcomes : RunTaskEnd(w, o)
  \/ TaskDoneCurrent(w)
  \/ TaskDoneTotal(w)

WorkerStep == \E w \in Workers : WorkerOf(w)

ShutdownStep ==
  \/ \E c \in BOOLEAN : ShutdownBegin(c)
  \/ ShutdownCancel
  \/ ShutdownPutStop
  \/ \E b \in BOOLEAN : ShutdownJoin(b)

Next ==
  \/ ExecuteStep
  \/ WorkerStep
  \/ ShutdownStep
  \/ \E t \in Tasks : Cancel(t)
  \/ JoinReturn
  \/ Tick

Spec == Init /\ [][Next]_vars

\* The executor on which shutdown() is never called, its threads scheduled
\* fairly and time passing.
LiveNext ==
  \/ ExecuteStep
  \/ WorkerStep
  \/ \E t \in Tasks : Cancel(t)
  \/ JoinReturn
  \/ Tick

LiveSpec ==
  /\ Init
  /\ [][LiveNext]_vars
  /\ \A t \in Tasks : WF_vars(ExecuteRest(t))
  /\ \A w \in Workers : WF_vars(WorkerOf(w))
  /\ WF_vars(Tick)

\* The steps of a shutdown() call that has begun.
ShutdownRest ==
  \/ ShutdownCancel
  \/ ShutdownPutStop
  \/ \E b \in BOOLEAN : ShutdownJoin(b)

\* The executor with shutdown(), its threads scheduled fairly and time
\* passing.
ShutdownLiveSpec ==
  /\ Init
  /\ [][Next]_vars
  /\ \A t \in Tasks : WF_vars(ExecuteRest(t))
  /\ \A w \in Workers : WF_vars(WorkerOf(w))
  /\ WF_vars(ShutdownRest)
  /\ WF_vars(Tick)

\* DefaultExecutor(max_workers=1), made before the time of any task and never
\* shut down.
OneWorkerInit == InitAt(1, 0)

OneWorkerSpec == OneWorkerInit /\ [][LiveNext]_vars

\* ----------------------------------------- an AtomicCounter on its own

\* inc, dec, get and join each run under the counter's lock, so the calls of
\* any number of threads happen one after the other, in any order.
CounterNext ==
  \/ CounterInc
  \/ CounterDec
  \/ CounterGet
  \/ \E timed \in BOOLEAN : CounterJoin(timed)

CounterSpec == Init /\ [][CounterNext]_vars

\* The same calls, and a thread whose join() call is followed from its
\* entry, through its wait, to its return.
CounterLiveNext ==
  \/ CounterNext
  \/ CounterJoinEnter
  \/ CounterJoinWake

\* A thread that was notified runs again.
CounterLiveSpec == Init /\ [][CounterLiveNext]_vars /\ WF_vars(CounterJoinWake)

\* ------------------------------------------------- a Task on its own

\* Task.__init__ has run for every task; no executor is involved.
TaskInit ==
  /\ status = [t \in Tasks |-> PENDING]
  /\ result = [t \in Tasks |-> Null]
  /\ error = [t \in Tasks |-> Null]
  /\ cancelFlag = [t \in Tasks |-> FALSE]
  /\ hist = [t \in Tasks |-> <<PENDING>>]
  /\ cbPasses = [t \in Tasks |-> 0]
  /\ lastUpdate = NoUpdate
  /\ nUpdates = 0
  /\ flagAtRunning = [t \in Tasks |-> FALSE]
  /\ invocations = [t \in Tasks |-> 0]
  /\ outcome = [t \in Tasks |-> "none"]
  /\ at = [t \in Tasks |-> 0]
  /\ q = <<>>
  /\ total = 0
  /\ current = 0
  /\ qlock = 0
  /\ waiters = <<>>
  /\ notified = {}
  /\ wpc = [w \in Workers |-> "unborn"]
  /\ wtask = [w \in Workers |-> NoTask]
  /\ wexc = [w \in Workers |-> FALSE]
  /\ current_task = [w \in Workers |-> NoTask]
  /\ pool = <<>>
  /\ all_tasks = 0
  /\ shutdownFlag = FALSE
  /\ xpc = [t \in Tasks |-> "idle"]
  /\ spc = "idle"
  /\ sidx = 0
  /\ sCancel = FALSE
  /\ sTask = NoTask
  /\ runningAtShutdown = {}
  /\ sBlock = FALSE
  /\ queuedAtStop = {}
  /\ jpc = "joining"
  /\ max_workers = DefaultMaxWorkers
  /\ early = {}
  /\ now = 1
  /\ CounterInit
  /\ CallbacksInit

\* task._update(st, res, err), called with any arguments.
UpdateCall(t, st, res, err) ==
  /\ nUpdates < MaxUpdates
  /\ nUpdates' = nUpdates + 1
  /\ Update(t, st, res, err)
  /\ lastUpdate' = [task |-> t, status |-> st, result |-> res, error |-> err,
                    raised |-> UpdateRejected(status[t], st, res, err)]
  /\ UNCHANGED <<cancelFlag, flagAtRunning, invocations, outcome, at>>
  /\ UNCHANGED <<queueVars, workerVars, execVars, callerVars, now>>
  /\ UNCHANGED <<early, restVars>>

\* cancel() that flips the flag.
FlagAfterCancelMutant(flag) == ~flag

\* Task.cancel(): self._cancelled.set(); the event is set whatever it was.
FlagAfterCancel(flag) == TRUE

\* task.cancel(), at any time and any number of times.
TaskCancel(t) ==
  /\ cancelFlag' = [cancelFlag EXCEPT ![t] = FlagAfterCancel(@)]
  /\ UNCHANGED <<status, result, error, hist, cbPasses, lastUpdate, nUpdates,
                 flagAtRunning, invocations, outcome, at>>
  /\ UNCHANGED <<queueVars, workerVars, execVars, callerVars, now>>
  /\ UNCHANGED <<early, restVars>>

TaskNext ==
  \/ \E t \in Tasks, st \in TaskStatus, res \in {Null, Val}, err \in {Null, Exc} :
       UpdateCall(t, st, res, err)
  \/ \E t \in Tasks : TaskCancel(t)

TaskSpec == TaskInit /\ [][TaskNext]_vars

\* ----------------------------------- a TaskPriorityQueue on its own

\* One thread calls put(time, task) for one task after the other, with any
\* times, equal ones too.
QueuePutCall(t, time) ==
  /\ xpc[t] = "idle"
  /\ \A u \in 1..(t - 1) : xpc[u] = "size"
  /\ xpc' = [xpc EXCEPT ![t] = "put"]
  /\ at' = [at EXCEPT ![t] = time]
  /\ UNCHANGED <<status, result, error, cancelFlag, hist, cbPasses, lastUpdate, nUpdates,
                 flagAtRunning, invocations, outcome>>
  /\ UNCHANGED <<queueVars, workerVars, execVars, spc, sidx, sCancel, sTask,
                 runningAtShutdown, sBlock, queuedAtStop, jpc, now>>
  /\ UNCHANGED <<early, restVars>>

\* A thread starts to call get(), and task_done() for what it gets, in a
\* loop.
ConsumerStart(w) ==
  /\ wpc[w] = "unborn"
  /\ wpc' = [wpc EXCEPT ![w] = "get"]
  /\ UNCHANGED <<wtask, wexc, current_task>>
  /\ UNCHANGED <<taskVars, queueVars, execVars, othersOfWorker>>
  /\ UNCHANGED <<early, restVars>>

\* TaskPriorityQueue.get(): self._current.inc(); return task.
QueueGetReturn(w) ==
  /\ wpc[w] = "inc"
  /\ current' = current + 1
  /\ wpc' = [wpc EXCEPT ![w] = "task_done"]
  /\ UNCHANGED <<q, total, qlock, waiters, notified, wtask, wexc, current_task>>
  /\ UNCHANGED <<taskVars, execVars, othersOfWorker>>
  /\ UNCHANGED <<early, restVars>>

\* No call on the queue has raised.
NoneRaised ==
  /\ \A t \in Tasks : xpc[t] # "raised"
  /\ \A w \in Workers : wpc[w] # "dead"

\* A step of a thread that calls the queue; the queue is followed until a
\* call on it raises.
QueuePutStep ==
  /\ NoneRaised
  /\ \E t \in Tasks :
       \/ \E time \in Times : QueuePutCall(t, time)
       \/ PutEnqueue(t)
       \/ PutCount(t)

QueueGetStep ==
  /\ NoneRaised
  /\ \E w \in Workers :
       \/ ConsumerStart(w)
       \/ QueueGet(w)
       \/ QueueGetCheck(w)
       \/ QueueGetRequeue(w)
       \/ QueueGetWake(w)
       \/ QueueGetReturn(w)
       \/ TaskDoneCurrent(w)
       \/ TaskDoneTotal(w)

QueueNext ==
  \/ QueuePutStep
  \/ QueueGetStep
  \/ NoneRaised /\ Tick

QueueSpec == TaskInit /\ [][QueueNext]_vars

\* ------------------------------------ a Task with callbacks on its own

\* The states on() is called with.
OnStates == {"start", "end", RUNNING}

\* The groups callbacks are added with.
Groups == {NoGroup, "g"}

\* The owner of the task updates it with any status; other threads register
\* callbacks and cancel the task at any moment, also between the steps of a
\* callback pass.
CallbackNext ==
  \/ UpdateEnter
  \/ \E st \in TaskStatus, err \in {Null, Exc} : CallbackUpdate(st, err)
  \/ InvokeCopy
  \/ InvokeEntry
  \/ InvokeRemove
  \/ \E k \in Keys, state \in OnStates, once \in BOOLEAN, group \in Groups :
       CallbacksOn(k, state, once, group)
  \/ \E group \in Groups \ {NoGroup} : CallbacksRemove(group)
  \/ TaskCancel(CbTask)

CallbackSpec == TaskInit /\ [][CallbackNext]_vars

\* ------------------------------------------- a Task that a thread joins

\* The owner of the task updates it with any status, a thread calls
\* Task.join() at any moment, and callbacks on the end of the task are added.
JoinNext ==
  \/ UpdateEnter
  \/ \E st \in TaskStatus, err \in {Null, Exc} : CallbackUpdate(st, err)
  \/ InvokeCopy
  \/ InvokeEntry
  \/ InvokeRemove
  \/ \E k \in Keys, once \in BOOLEAN : CallbacksOn(k, "end", once, NoGroup)
  \/ TaskJoin
  \/ TaskJoinWake

\* A thread that holds the lock of the task leaves the block, and a thread
\* that was notified runs again.
JoinSpec ==
  /\ TaskInit
  /\ [][JoinNext]_vars
  /\ WF_vars(\E st \in TaskStatus, err \in {Null, Exc} : CallbackUpdate(st, err))
  /\ WF_vars(TaskJoinWake)

\* ------------------------- a Task whose conditions and callbacks raise

\* The conditions add() is called with: one that never raises, and one that
\* raises while the task is RUNNING.
Conditions ==
  {[holds |-> {RUNNING, SUCCEEDED}, raises |-> {}],
   [holds |-> {SUCCEEDED}, raises |-> {RUNNING}]}

\* The callbacks add() is called with: one that returns and one that raises.
Callbacks == {[raises |-> FALSE], [raises |-> TRUE]}

\* The owner of the task updates it with any status; other threads add
\* callbacks at any moment.
RaisingNext ==
  \/ UpdateEnter
  \/ \E st \in TaskStatus, err \in {Null, Exc} : CallbackUpdate(st, err)
  \/ InvokeCopy
  \/ InvokeEntry
  \/ InvokeRemove
  \/ \E k \in Keys, condition \in Conditions, callback \in Callbacks, once \in BOOLEAN :
       CallbacksAdd(k, condition, callback, once, NoGroup)

RaisingSpec == TaskInit /\ [][RaisingNext]_vars

\* ------------------------------------------------------------ properties

\* Task.result: what reading the property gives.
ResultProperty(t) ==
  IF status[t] = IGNORED THEN [returns |-> Null]
  ELSE IF status[t] = FAILED
    THEN IF error[t] = Null THEN [raises |-> "AssertionError"] ELSE [raises |-> error[t]]
  ELSE IF status[t] \in {SUCCEEDED, CANCELLED} THEN [returns |-> result[t]]
  ELSE [raises |-> "RuntimeError"]

\* C1: a task whose runnable raised E is FAILED, its error is E and reading
\* its result raises E, whatever its cancellation flag.
C1_RaisedTaskIsFailed ==
  \A t \in Tasks :
    outcome[t] = "raise" =>
      /\ status[t] = FAILED
      /\ error[t] = Exc
      /\ ResultProperty(t) = [raises |-> Exc]

\* C2: when the runnable of a task that was cancelled while RUNNING returns
\* normally, with or without a value, the task becomes CANCELLED and a
\* returned value is its result.
C2_CancelledWhileRunning ==
  [][\A w \in Workers :
       (/\ wpc[w] = "running"
        /\ wpc'[w] # "running"
        /\ ~flagAtRunning[wtask[w]]
        /\ cancelFlag[wtask[w]]
        /\ outcome'[wtask[w]] \in {"null", "val"})
       => (/\ status'[wtask[w]] = CANCELLED
           /\ outcome'[wtask[w]] = "val" => result'[wtask[w]] = Val)]_vars

\* A worker has taken the task out of the queue and found it not cancelled.
HeldForRun(t) == \E w \in Workers : wtask[w] = t /\ wpc[w] = "run"

\* C3: a task cancelled before a worker dequeued it is never RUNNING and never
\* invoked; the worker that dequeues it makes it IGNORED straight from QUEUED
\* and goes on with its loop.
C3_CancelledBeforeDequeue ==
  [][/\ \A t \in Tasks :
          (cancelFlag[t] /\ status[t] = QUEUED /\ ~HeldForRun(t))
          => (/\ status'[t] \in {QUEUED, IGNORED}
              /\ invocations'[t] = 0
              /\ ~HeldForRun(t)')
     /\ \A w \in Workers :
          (wpc[w] \in {"task_done", "total_dec"} /\ status[wtask[w]] = IGNORED)
          => wpc'[w] # "dead"]_vars

\* C3, its part on the statuses alone.
C3_NeverRunning ==
  [][\A t \in Tasks :
       (cancelFlag[t] /\ status[t] = QUEUED /\ ~HeldForRun(t))
       => (/\ status'[t] \in {QUEUED, IGNORED}
           /\ invocations'[t] = 0
           /\ ~HeldForRun(t)')]_vars

\* No execute() call is under way and every task a call has returned is
\* completed and no longer held by a worker.
NoneOutstanding ==
  /\ \A t \in Tasks : xpc[t] \in {"idle", "returned", "raised"}
  /\ \A t \in Tasks : xpc[t] = "returned" => completed(status[t])
  /\ \A w \in Workers : wtask[w] = NoTask

\* C4: join() returns only when every task whose execute() has returned is
\* completed, and it can return as soon as no task is outstanding.
C4_JoinWaitsForAll ==
  [][/\ (jpc = "joining" /\ jpc' = "returned")
          => \A t \in Tasks : xpc[t] = "returned" => completed(status[t])
     /\ NoneOutstanding' => total' = 0]_vars

\* C5: without shutdown(), every task execute() has returned is eventually
\* completed.
C5_EveryTaskCompletes ==
  \A t \in Tasks : (xpc[t] = "returned") ~> completed(status[t])

IsPrefix(a, b) == Len(a) <= Len(b) /\ SubSeq(b, 1, Len(a)) = a

\* C6: the statuses a task passes through are a prefix of PENDING, QUEUED,
\* IGNORED or of PENDING, QUEUED, RUNNING and one of SUCCEEDED, FAILED,
\* CANCELLED; hist holds every status the task has had, the last being its
\* present one.
C6_StatusSequence ==
  \A t \in Tasks :
    status[t] # NONE =>
      /\ hist[t] # <<>>
      /\ hist[t][Len(hist[t])] = status[t]
      /\ \/ IsPrefix(hist[t], <<PENDING, QUEUED, IGNORED>>)
         \/ \E x \in {SUCCEEDED, FAILED, CANCELLED} :
              IsPrefix(hist[t], <<PENDING, QUEUED, RUNNING, x>>)

\* C6 witness: a task went through PENDING, QUEUED, RUNNING, CANCELLED.
C6_Witness == \E t \in Tasks : hist[t] = <<PENDING, QUEUED, RUNNING, CANCELLED>>

\* C7: _update raises for every change from a completed status to another,
\* for every change from RUNNING to PENDING or QUEUED, for FAILED without an
\* error and for a result with a status other than SUCCEEDED; a call that
\* raises leaves status, result and error as they were and starts no callback
\* pass.
C7_RejectedUpdate ==
  [][nUpdates' # nUpdates =>
       LET c == lastUpdate'
           t == c.task
       IN /\ (\/ completed(status[t]) /\ c.status # status[t]
              \/ status[t] = RUNNING /\ c.status \in {PENDING, QUEUED}
              \/ c.status = FAILED /\ c.error = Null
              \/ c.result # Null /\ c.status # SUCCEEDED) => c.raised
          /\ c.raised => /\ status'[t] = status[t]
                         /\ result'[t] = result[t]
                         /\ error'[t] = error[t]
                         /\ cbPasses'[t] = cbPasses[t]]_vars

\* C7 witness: a task that completed with a result has had a later _update
\* to another status rejected.
C7_Witness ==
  /\ lastUpdate.raised
  /\ lastUpdate.task \in Tasks
  /\ status[lastUpdate.task] = SUCCEEDED
  /\ result[lastUpdate.task] = Val
  /\ lastUpdate.status = RUNNING

\* C8: a FAILED task has an error, a SUCCEEDED or CANCELLED task has none.
C8_ErrorOnlyIfFailed ==
  \A t \in Tasks :
    /\ status[t] = FAILED => error[t] # Null
    /\ status[t] \in {SUCCEEDED, CANCELLED} => error[t] = Null

StopsIn(queue) == Cardinality({i \in 1..Len(queue) : queue[i].task = NoTask})

C10_BlockingShutdownWaits ==
  [][(spc # "returned" /\ spc' = "returned" /\ current = 0)
       => \A t \in runningAtShutdown : completed(status[t])]_vars

\* The number of worker threads that have been started.
StartedWorkers == Cardinality({w \in Workers : wpc[w] # "unborn"})

\* C11: with max_workers = 1 and a single worker thread, uncancelled tasks
\* with distinct times that were all submitted before the clock reached the
\* earliest of them (here: while the clock was at 0, before every task time)
\* complete in ascending order of their times: when one completes, those with
\* earlier times have completed.
C11_AscendingOrder ==
  [][(max_workers = 1 /\ StartedWorkers' <= 1) =>
       \A t, u \in early :
         (/\ at[u] < at[t]
          /\ ~cancelFlag[t] /\ ~cancelFlag[u]
          /\ ~cancelFlag'[t] /\ ~cancelFlag'[u]
          /\ ~completed(status[t])
          /\ completed(status'[t]))
         => completed(status[u])]_vars

\* The tasks other than t that have been submitted and are not completed.
OutstandingBut(t) ==
  Cardinality({u \in Tasks \ {t} : status[u] # NONE /\ ~completed(status[u])})

\* execute() is to spawn a worker when n tasks are outstanding.
SpawnRule(n) == n >= Len(pool) /\ n < max_workers

\* C13: an execute() call that overlaps no other spawns a worker exactly when
\* the number of submitted and not completed tasks (counted without or with
\* the task of the call) is at least the pool size and below max_workers; and
\* when k <= max_workers tasks have been submitted and none has completed, the
\* pool has k workers.
C13_SpawnRuleFollowed ==
  [][/\ \A t \in Tasks :
          (/\ xpc[t] = "size"
           /\ xpc'[t] # "size"
           /\ \A u \in Tasks \ {t} : xpc[u] \in {"idle", "returned", "raised"})
          => \/ (xpc'[t] = "append") <=> SpawnRule(OutstandingBut(t))
             \/ (xpc'[t] = "append") <=> SpawnRule(OutstandingBut(t) + 1)
     /\ (/\ \A t \in Tasks : xpc'[t] \in {"idle", "returned"}
         /\ \A t \in Tasks : ~completed(status'[t]))
        => LET k == Cardinality({t \in Tasks : xpc'[t] = "returned"})
           IN k <= max_workers => Len(pool') = k]_vars

\* C14: get_worker_count(), the length of _pool_workers, never exceeds
\* max_workers and never decreases.
C14_PoolBounded ==
  [][Len(pool') >= Len(pool) /\ Len(pool') <= max_workers]_vars

\* C15: an execute() call that begins when the shutdown flag is set raises
\* and changes nothing: no task, no queue entry, no counter, no worker; and
\* the call does nothing afterwards.
C15_ExecuteAfterShutdown ==
  [][\A t \in Tasks :
       /\ (xpc[t] = "idle" /\ xpc'[t] # "idle" /\ shutdownFlag)
            => (/\ xpc'[t] = "raised"
                /\ UNCHANGED <<taskVars, queueVars, workerVars, execVars>>)
       /\ xpc[t] = "raised" => xpc'[t] = "raised"]_vars

\* C15 witness: an execute() call has raised after shutdown() began, and
\* its task does not exist.
C15_Witness ==
  \E t \in Tasks : xpc[t] = "raised" /\ shutdownFlag /\ status[t] = NONE /\ at[t] = 0

\* C16: a shutdown() call that begins when the flag is set raises and changes
\* nothing: no sentinel is enqueued, no task is cancelled; and the call does
\* nothing afterwards.
C16_SecondShutdown ==
  [][/\ (spc \in {"idle", "returned"} /\ spc' # spc /\ shutdownFlag)
          => (/\ spc' = "raised"
              /\ UNCHANGED <<taskVars, queueVars, workerVars, execVars>>)
     /\ spc = "raised" => spc' = "raised"]_vars

\* C16 witness: the second shutdown() call has raised while a sentinel of
\* the first is in the queue.
C16_Witness == spc = "raised" /\ shutdownFlag /\ StopsIn(q) > 0

\* C17: when a runnable raises, the failure is stored on the task and the
\* worker goes on: it does not end because of that task.
C17_WorkerSurvivesFailure ==
  [][\A w \in Workers :
       /\ (wpc[w] = "running" /\ wpc'[w] # "running" /\ outcome'[wtask[w]] = "raise")
            => (status'[wtask[w]] = FAILED /\ error'[wtask[w]] = Exc)
       /\ (wtask[w] # NoTask /\ outcome[wtask[w]] = "raise") => wpc'[w] # "dead"]_vars

\* C18: the value of an AtomicCounter is never negative; dec() at zero raises
\* and leaves the value at zero; the value is the number of inc() minus the
\* number of dec() that went through, so after two of each it is zero and a
\* join() without timeout can return at once.
C18_CounterNeverNegative ==
  [][/\ value >= 0 /\ value' >= 0
     /\ value' = nInc' - nDec'
     /\ (lastCall'.op = "dec" /\ value = 0) => (lastCall'.raised /\ value' = 0)
     /\ (nInc' = 2 /\ nDec' = 2) => (value' = 0 /\ (ENABLED CounterJoin(FALSE))')]_vars

\* C18 witness: after two inc() and two dec(), a third dec() has raised and
\* left the value at zero.
C18_Witness ==
  nInc = 2 /\ nDec = 2 /\ value = 0 /\ lastCall.op = "dec" /\ lastCall.raised

\* C19: join(timeout) returns TRUE when the value is zero at its return and
\* FALSE when the timeout elapsed with the value not zero.
C19_JoinTellsWhetherZero ==
  lastCall.op \in {"join", "join_timeout"} => lastCall.returned = PyBool(lastCall.reached)

\* C19 as amended: join(timeout) returns None in every case; without a
\* timeout it returns only with the value at zero, with a timeout it also
\* returns with the value not zero, and its caller is not told which.
C19_JoinReturnsNone ==
  [][lastCall'.op \in {"join", "join_timeout"} =>
       /\ lastCall'.returned = NoValue
       /\ lastCall'.reached = (value = 0)
       /\ lastCall'.op = "join" => value = 0
       /\ value' = value]_vars

\* C19 witness: a join with timeout has returned with the value not zero.
C19_Witness ==
  lastCall.op = "join_timeout" /\ ~lastCall.reached /\ value > 0 /\ lastCall.returned = NoValue

\* C12: the callback of an add() call with once=True is invoked at most once
\* in the life of the task, and once it has been invoked in a pass it is no
\* longer registered when the pass has ended.
C12_OnceAtMostOnce ==
  \A k \in Keys :
    (entries[k].used /\ entries[k].once) =>
      /\ fired[k] <= 1
      /\ (ppc = "idle" /\ fired[k] = 1) => k \notin registered

\* C12 witness: a once callback on 'start' was invoked when the task became
\* RUNNING and not again when it became SUCCEEDED.
C12_Witness ==
  \E k \in Keys :
    /\ entries[k].used /\ entries[k].once
    /\ entries[k].cond = OnStatuses("start")
    /\ hist[CbTask] = <<PENDING, QUEUED, RUNNING, SUCCEEDED>>
    /\ ppc = "idle"
    /\ fired[k] = 1
    /\ cbPasses[CbTask] = 3

\* C20: a callback is invoked only when its condition holds, so one
\* registered through on("end") only when the task is SUCCEEDED, FAILED or
\* IGNORED and never for a task that is or ends CANCELLED; every change of
\* status starts a pass over all registered entries, in which each entry
\* whose condition holds is invoked, so on("end") entries at SUCCEEDED,
\* FAILED and IGNORED, and on("start") entries at RUNNING as well.
C20_EndAndStart ==
  [][/\ \A k \in Keys :
          /\ fired'[k] # fired[k] =>
               (fired'[k] = fired[k] + 1 /\ status[CbTask] \in entries'[k].cond)
          /\ (entries[k].used /\ entries[k].cond = OnStatuses("end") /\ fired[k] > 0)
               => status[CbTask] \in {SUCCEEDED, FAILED, IGNORED}
          /\ (k \in snapshot /\ k \notin snapshot' /\ status[CbTask] \in entries[k].cond)
               => fired'[k] = fired[k] + 1
          /\ (ppc = "idle" /\ k \in registered /\ status[CbTask] \in entries[k].cond)
               => fired[k] >= 1
          /\ (k \in registered /\ k \notin registered' /\ fired[k] = 0)
               => entries[k].group # NoGroup
     /\ status'[CbTask] # status[CbTask] => ppc' = "copy"
     /\ (ppc = "copy" /\ ppc' # "copy") => snapshot' = registered
     /\ (ppc = "loop" /\ snapshot # {}) => ppc' = "loop"
     /\ OnStatuses("start") = OnStatuses("end") \cup {RUNNING}]_vars

\* C20 witness: a callback registered with on("start", once=False) has been
\* invoked at RUNNING and at SUCCEEDED, one registered with on("end") at
\* SUCCEEDED only.
C20_Witness ==
  \E k, j \in Keys :
    /\ entries[k].used /\ ~entries[k].once /\ entries[k].cond = OnStatuses("start")
    /\ entries[j].used /\ entries[j].cond = OnStatuses("end")
    /\ status[CbTask] = SUCCEEDED
    /\ ppc = "idle"
    /\ fired[k] = 2
    /\ fired[j] = 1

\* C21: a task whose flag is set while it is QUEUED, also when a worker has
\* already dequeued it and found the flag not set, is not made RUNNING and its
\* runnable is not invoked: it stays QUEUED until it becomes IGNORED.
C21_CancelledBeforeRunning ==
  [][\A t \in Tasks :
       (cancelFlag[t] /\ status[t] = QUEUED)
       => (status'[t] \in {QUEUED, IGNORED} /\ invocations'[t] = 0)]_vars

\* The tasks whose put() has returned and for which task_done() has not been
\* called to its end: they are in the queue or held by a worker.
PutNotDone ==
  {t \in Tasks : /\ xpc[t] \in {"size", "append", "returned"}
                 /\ InQueue(t) \/ \E w \in Workers : wtask[w] = t}

\* C22: _total >= _current >= 0 in every state, _total is the number of tasks
\* put and not yet marked done whenever no put() is under way, and no dec()
\* of task_done() finds its counter at zero.
C22_CountersConsistent ==
  [][/\ total' >= current' /\ current' >= 0
     /\ (\A t \in Tasks : xpc'[t] # "put_inc") => total' = Cardinality(PutNotDone')
     /\ \A w \in Workers :
          /\ (wpc[w] = "task_done" /\ wpc'[w] # "task_done") => current > 0
          /\ (wpc[w] = "total_dec" /\ wpc'[w] # "total_dec") => total > 0]_vars

\* C27: once the shutdown flag is set, no execute() call enqueues a task and
\* none starts or appends a worker: a call that is under way when the flag is
\* set has completed its enqueue, or raises.
C27_NothingAfterShutdown ==
  [][shutdownFlag =>
       /\ \A t \in Tasks : InQueue(t)' => (InQueue(t) \/ \E w \in Workers : wtask[w] = t)
       /\ \A w \in Workers : wpc[w] = "unborn" => wpc'[w] = "unborn"
       /\ pool' = pool]_vars

\* C28: get() returns a task only if its time has come or its flag is set,
\* and a task becomes RUNNING only when its time has come.
C28_NotBeforeItsTime ==
  [][/\ \A w \in Workers :
          (wpc[w] = "check" /\ wpc'[w] = "inc")
          => (at[wtask[w]] <= now \/ cancelFlag[wtask[w]])
     /\ \A t \in Tasks :
          (status[t] # RUNNING /\ status'[t] = RUNNING) => at[t] <= now]_vars

\* C28 witness: a task put for the latest time, which had not come when the
\* executor was made, is RUNNING now that it has, and was not cancelled.
C28_Witness ==
  \E t \in Tasks :
    /\ at[t] = MaxTime /\ now = MaxTime /\ status[t] = RUNNING
    /\ ~cancelFlag[t]

\* C29: a ready task whose put() has returned is not left in the queue while
\* the only worker thread sleeps, not notified, until the time of a later
\* head that it put back: the notify of put() is not lost.  (The clock is
\* below the time of the head, so the ready task was ready when it was put:
\* no time lies between the two.)
C29_NoLostNotification ==
  ~ \E w \in Workers, t \in Tasks :
      /\ StartedWorkers = 1
      /\ wpc[w] = "wait" /\ w \notin notified
      /\ at[wtask[w]] > now
      /\ ~cancelFlag[wtask[w]]
      /\ t # wtask[w]
      /\ InQueue(t)
      /\ at[t] <= now
      /\ xpc[t] = "returned"

\* Every worker thread that was started is in the pool and shutdown() has
\* enqueued a sentinel for it, which is in the queue or has stopped a worker.
EveryWorkerWasStopped ==
  /\ StartedWorkers = Len(pool)
  /\ StopsIn(q) + Cardinality({w \in Workers : wpc[w] = "stopped"}) = Len(pool)

\* C23: once shutdown(block=True) has returned, no worker of the pool is
\* running a runnable and none starts one; stated for the shutdown() calls
\* that found every worker in the pool.
C23_NoneRunsAfterBlockingShutdown ==
  [][(sBlock /\ EveryWorkerWasStopped) =>
       \A w \in Range(pool) : wpc[w] # "running" /\ wpc'[w] # "running"]_vars

\* shutdown() has left its loop over the workers: it has enqueued all its
\* sentinels.
SentinelsEnqueued ==
  \/ spc \in {"returned", "raised"}
  \/ spc \in {"cancel", "put_stop"} /\ sidx > Len(pool)

\* C25: once shutdown() has enqueued its sentinels, no task that was in the
\* queue when the last one was enqueued becomes RUNNING.
C25_SentinelsBeforePendingTasks ==
  [][SentinelsEnqueued =>
       \A t \in queuedAtStop : status[t] # RUNNING => status'[t] # RUNNING]_vars

\* C24: a task that is QUEUED and in the queue when the executor is shut down
\* eventually becomes IGNORED.
C24_QueuedBecomesIgnored ==
  \A t \in Tasks :
    (shutdownFlag /\ status[t] = QUEUED /\ InQueue(t)) ~> (status[t] = IGNORED)

\* C26: after shutdown() has been called, every worker of the pool eventually
\* leaves its loop.
C26_WorkersExit ==
  \A w \in Workers :
    (shutdownFlag /\ w \in Range(pool)) ~> (wpc[w] \in {"stopped", "dead"})

\* C30: every put() enqueues its entry, also when its time is that of an
\* entry in the queue; and the entry that leaves the queue is one with the
\* least time, among those the one put first.
C30_AscendingFifo ==
  [][/\ \A t \in Tasks :
          (xpc[t] = "put" /\ xpc'[t] # "put") => (xpc'[t] = "put_inc" /\ InQueue(t)')
     /\ \A w \in Workers :
          (wpc[w] = "requeue" /\ wpc'[w] # "requeue") => wpc'[w] = "wait"
     /\ (q # <<>> /\ q' = Tail(q)) =>
          \A i \in 1..Len(q) :
            \/ Head(q).at < q[i].at
            \/ Head(q).at = q[i].at /\ Head(q).task <= q[i].task]_vars

\* C34: once a task is completed, no _update call changes its status, its
\* result or its error any more, a call with the same status included.
C34_TerminalIsFinal ==
  [][\A t \in Tasks :
       completed(status[t]) =>
         /\ status'[t] = status[t]
         /\ result'[t] = result[t]
         /\ error'[t] = error[t]]_vars

\* C35: the accepted _update calls never bring a task back to a status it has
\* left: no status occurs twice among the statuses a task has had.
C35_NoStatusTwice ==
  \A t \in Tasks :
    \A i, j \in 1..Len(hist[t]) : i # j => hist[t][i] # hist[t][j]

\* The place of a status in the life of a task: idle, running, completed.
Rank(s) == IF idle(s) THEN 0 ELSE IF s = RUNNING THEN 1 ELSE 2

\* C35, amended: the accepted _update calls never bring a task back from
\* RUNNING to an idle status nor away from a completed status; the only status
\* a task can have twice is an idle one, PENDING and QUEUED being free to
\* follow each other.
C35_OnlyIdleTwice ==
  \A t \in Tasks :
    \A i, j \in 1..Len(hist[t]) :
      i < j => /\ Rank(hist[t][i]) <= Rank(hist[t][j])
               /\ hist[t][i] = hist[t][j] => idle(hist[t][i])

\* A task went from QUEUED back to PENDING and was then started.
C35_Witness == \E t \in Tasks : hist[t] = <<PENDING, QUEUED, PENDING, RUNNING>>

\* C36: cancel() sets the flag and nothing else: the step that sets it leaves
\* the status, the result, the error and the callbacks of the task as they
\* were, and a flag that is set stays set, through further cancel() calls too.
C36_CancelOnlySetsFlag ==
  [][\A t \in Tasks :
       /\ cancelFlag[t] => cancelFlag'[t]
       /\ cancelFlag'[t] # cancelFlag[t] =>
            /\ status' = status /\ result' = result /\ error' = error
            /\ registered' = registered /\ entries' = entries /\ fired' = fired]_vars

\* A cancelled task that has a callback registered, has run and has ended
\* CANCELLED with its flag still set.
C36_Witness ==
  /\ cancelFlag[CbTask]
  /\ registered # {}
  /\ hist[CbTask] = <<PENDING, RUNNING, CANCELLED>>

\* The number of entries of task t in the queue.
EntriesOf(t) == Cardinality({i \in 1..Len(q) : q[i].task = t})

\* The workers that hold task t: they took it from the queue and have neither
\* put it back nor reported it done.
Holders(t) == {w \in Workers : wtask[w] = t /\ wpc[w] \notin {"wait", "dead"}}

\* C40: the runnable of a task is called at most once, and a task is never in
\* two places: it has one entry in the queue and no worker holds it, or it has
\* no entry and at most one worker holds it.
C40_OnePlaceOneRun ==
  \A t \in Tasks :
    /\ invocations[t] <= 1
    /\ EntriesOf(t) + Cardinality(Holders(t)) <= 1

\* A worker has put a task back before its time and waits, the task has its
\* one entry in the queue, and the other worker runs the other task.
C40_Witness ==
  \E w \in Workers, t \in Tasks :
    /\ wpc[w] = "wait" /\ wtask[w] # t
    /\ EntriesOf(wtask[w]) = 1
    /\ Holders(t) # {} /\ invocations[t] = 1 /\ status[t] = RUNNING

\* Worker w has a task from get() and has not called task_done() for it yet.
Dequeued(w) == wpc[w] \in {"inc", "run", "running"}

\* C37: a worker leaves a task it got from the queue only into its call of
\* task_done(), on the ignored path, after the runnable and after a failed
\* status update alike; the call is made for such a task only, with the slot of
\* the current task cleared, and after it the worker takes the next entry or
\* ends; a worker that takes an entry or has ended has an empty slot.
C37_TaskDoneOncePerTask ==
  [][\A w \in Workers :
       /\ (Dequeued(w) /\ ~Dequeued(w)') => wpc'[w] = "task_done"
       /\ (wpc[w] # "task_done" /\ wpc'[w] = "task_done") => Dequeued(w)
       /\ (wpc[w] = "task_done" /\ wpc'[w] # "task_done") =>
            /\ wpc'[w] \in {"total_dec", "dead"}
            /\ current_task'[w] = NoTask
       /\ (wpc[w] = "total_dec" /\ wpc'[w] # "total_dec") => wpc'[w] \in {"get", "dead"}
       /\ wpc'[w] \in {"get", "stopped", "dead"} => current_task'[w] = NoTask]_vars

\* The status update after the runnable raised, and the worker is inside
\* task_done() with its slot cleared.
C37_Witness ==
  \E w \in Workers : wpc[w] = "total_dec" /\ wexc[w] /\ current_task[w] = NoTask

\* An add() call made with once=True and without a group, so that no remove()
\* call takes its entry away.
OnceEntry(k) == entries[k].used /\ entries[k].once /\ entries[k].group = NoGroup

\* C31: the callback of an add(condition 'status in S', cb, once=True) call is
\* invoked once if the task was in a status of S at the call or came into one
\* later, and not at all otherwise: it is invoked at most once and only after
\* the task had a status of S; a call whose condition held ran it at once and
\* stored nothing; a stored entry whose condition holds is invoked by the pass
\* of the transition that made it hold, which has it before it (the copy is
\* not taken yet, or the entry is in the copy), and is gone when that pass has
\* ended.
C31_OnceExactlyOnce ==
  \A k \in Keys :
    OnceEntry(k) =>
      /\ fired[k] <= 1
      /\ fired[k] = 1 => \E i \in 1..Len(hist[CbTask]) : hist[CbTask][i] \in entries[k].cond
      /\ k \in registered => (fired[k] = 0 \/ k \in toRemove)
      /\ k \notin registered => fired[k] = 1
      /\ (k \in registered /\ fired[k] = 0 /\ status[CbTask] \in entries[k].cond) =>
           (ppc = "copy" \/ (ppc = "loop" /\ k \in snapshot))

\* C31 witness: the status of a transition is committed and the copy is not
\* taken yet; a once entry stored before is still to be invoked, and a second
\* add() call with the same condition, made since the commit, has run its
\* callback at once and stored nothing.
C31_Witness ==
  \E k, j \in Keys :
    /\ k < j /\ OnceEntry(k) /\ OnceEntry(j)
    /\ entries[k].cond = entries[j].cond
    /\ status[CbTask] \in entries[k].cond
    /\ ppc = "copy"
    /\ k \in registered /\ fired[k] = 0
    /\ j \notin registered /\ fired[j] = 1

\* C33: the callback pass of a transition runs with the status committed and
\* with the lock of the task released by the thread that made the transition:
\* from the commit to the end of the pass nobody holds the lock, the status is
\* the one committed, and another thread can enter add() and Task.join(),
\* which take the lock, at once.
C33_CallbacksOutsideLock ==
  ppc # "idle" =>
    /\ lockHolder = "none"
    /\ status[CbTask] = hist[CbTask][Len(hist[CbTask])]
    /\ tjpc = "idle" => ENABLED TaskJoin
    /\ (\E k \in Keys : ~entries[k].used) =>
         ENABLED (\E k \in Keys : CallbacksOn(k, RUNNING, TRUE, NoGroup))

\* C33 witness: in the pass of the transition to RUNNING a callback has been
\* invoked, the pass has not ended, and a key is left for an add() call.
C33_Witness ==
  /\ ppc = "loop"
  /\ status[CbTask] = RUNNING
  /\ \E k \in Keys : fired[k] = 1 /\ k \in toRemove
  /\ \E k \in Keys : ~entries[k].used

C32_RaiseStopsNothing ==
  [][/\ ppc' # "raised"
     /\ ppc # "idle" =>
          (status' = status /\ hist' = hist /\ result' = result /\ error' = error)
     /\ (ppc = "copy" /\ ppc' # "copy") => (ppc' = "loop" /\ snapshot' = registered)
     /\ (ppc = "loop" /\ snapshot' # snapshot) =>
          LET k == FirstKey(snapshot)
          IN /\ ppc' = "loop"
             /\ snapshot' = snapshot \ {k}
             /\ (status[CbTask] \in entries[k].cond \ entries[k].condRaises) =>
                  fired'[k] = fired[k] + 1
     /\ (ppc = "loop" /\ ppc' # "loop") => (snapshot = {} /\ ppc' = "idle")]_vars

\* C32 witness: two entries were stored before the task became RUNNING; in
\* the pass of that transition the callback of the first raised, or its
\* condition did, and the second was invoked all the same; the pass has ended.
C32_Witness ==
  /\ status[CbTask] = RUNNING
  /\ ppc = "idle"
  /\ registered = {1, 2}
  /\ entries[1].cbRaises \/ RUNNING \in entries[1].condRaises
  /\ ~entries[2].cbRaises /\ entries[2].condRaises = {}
  /\ fired[2] = 1

\* C39: a thread that waits in join() without a timeout is never left waiting
\* at zero: whenever the value is zero a notify_all() has woken it, it returns
\* only with the value at zero, and it does return unless the value has left
\* zero before it ran.
C39_WaiterReturnsAtZero ==
  /\ []((cjpc = "waiting" /\ value = 0) => cjWoken)
  /\ [][(cjpc # "returned" /\ cjpc' = "returned") => (value = 0 /\ value' = 0)]_vars
  /\ (cjpc = "waiting" /\ value = 0) ~> (cjpc = "returned" \/ value # 0)

\* C39 witness: a thread entered join() with the value at two and waits; the
\* second dec() has brought the value to zero and woken it.
C39_Witness ==
  cjpc = "waiting" /\ cjWoken /\ value = 0 /\ nInc = 2 /\ nDec = 2

====
